---- MODULE Spec2Model ----
(***************************************************************************)
(* A model of analytics-bot (src/main.py): the cell normaliser             *)
(* parse_number, the row reader fetch_data, filter_data, compute_report,   *)
(* format_report's header, the access decorator restricted and the three   *)
(* Telegram handlers it wraps.                                             *)
(*                                                                         *)
(* Python strings are sequences of one-character strings.  A Python float  *)
(* is an exact decimal [m |-> mantissa, e |-> exponent] standing for       *)
(* m * 10^e with m not divisible by 10 (binary rounding is not modelled).  *)
(* A call's outcome is [exc |-> "None", val |-> value] or                  *)
(* [exc |-> <exception class>, val |-> NoValue].                           *)
(***************************************************************************)
EXTENDS Integers, Sequences, FiniteSets, TLC

VARIABLES
    v, ret,                                  \* parse_number: argument, outcome
    values, fetched,                         \* fetch_data: the API's rows, the outcome
    rows, start_date, end_date, filtered, stats,   \* filter_data / compute_report
    sheet, pc, call, now, start, report,     \* the bot: remote sheet, handler position
    out, fetch_for, report_to                \* the bot: last message, who was served

vars == << v, ret, values, fetched, rows, start_date, end_date, filtered, stats,
           sheet, pc, call, now, start, report, out, fetch_for, report_to >>

numberVars == << v, ret >>
fetchVars  == << values, fetched >>
coreVars   == << rows, start_date, end_date, filtered, stats >>
botVars    == << sheet, call, now, start, report, out, fetch_for, report_to >>

None == [none |-> TRUE]
NoValue == [novalue |-> TRUE]

Ok(x) == [exc |-> "None", val |-> x]
Raise(e) == [exc |-> e, val |-> NoValue]

(***************************************************************************)
(* Strings                                                                 *)
(***************************************************************************)
NBSP == "NBSP"          \* stands for the one character U+00A0
Digits == {"0", "1", "2", "3", "4", "5", "6", "7", "8", "9"}

DigitVal(c) ==
    CASE c = "0" -> 0 [] c = "1" -> 1 [] c = "2" -> 2 [] c = "3" -> 3
      [] c = "4" -> 4 [] c = "5" -> 5 [] c = "6" -> 6 [] c = "7" -> 7
      [] c = "8" -> 8 [] c = "9" -> 9

\* str.isspace() on one character; the no-break space is Unicode whitespace
IsSpace(c) == c \in {" ", NBSP}

RECURSIVE StrDelete(_, _)
\* s.replace(c, '')
StrDelete(s, c) ==
    IF s = << >> THEN << >>
    ELSE IF Head(s) = c THEN StrDelete(Tail(s), c)
         ELSE << Head(s) >> \o StrDelete(Tail(s), c)

\* s.replace(a, b) for one-character a and b
StrReplace(s, a, b) == [i \in 1..Len(s) |-> IF s[i] = a THEN b ELSE s[i]]

RECURSIVE LStrip(_)
LStrip(s) == IF s # << >> /\ IsSpace(Head(s)) THEN LStrip(Tail(s)) ELSE s

RECURSIVE RStrip(_)
RStrip(s) ==
    IF s # << >> /\ IsSpace(s[Len(s)]) THEN RStrip(SubSeq(s, 1, Len(s) - 1)) ELSE s

\* s.strip()
Strip(s) == RStrip(LStrip(s))

\* s.endswith(c)
EndsWith(s, c) == s # << >> /\ s[Len(s)] = c

RECURSIVE RStripChar(_, _)
\* s.rstrip(c): every trailing occurrence of c goes
RStripChar(s, c) ==
    IF s # << >> /\ s[Len(s)] = c THEN RStripChar(SubSeq(s, 1, Len(s) - 1), c) ELSE s

AllDigits(s) == \A i \in 1..Len(s) : s[i] \in Digits

RECURSIVE DigitsVal(_)
\* int(s) for a string of decimal digits
DigitsVal(s) ==
    IF s = << >> THEN 0
    ELSE 10 * DigitsVal(SubSeq(s, 1, Len(s) - 1)) + DigitVal(s[Len(s)])

(***************************************************************************)
(* Floats                                                                  *)
(***************************************************************************)
RECURSIVE Norm(_, _)
Norm(m, e) ==
    IF m = 0 THEN [m |-> 0, e |-> 0]
    ELSE IF m % 10 = 0 THEN Norm(m \div 10, e + 1)
         ELSE [m |-> m, e |-> e]

Zero == Norm(0, 0)

\* The largest decimal exponent of a finite double (sys.float_info.max_10_exp):
\* the largest double is 1.797...e308.
MaxTenExp == 308

\* float(n) for a Python int n whose normal form is m * 10^e, -9 <= m <= 9: an
\* int beyond the largest double raises OverflowError instead of giving inf.
FloatOfNorm(n) ==
    IF n.e > MaxTenExp \/ (n.e = MaxTenExp /\ (n.m >= 2 \/ n.m <= -2))
    THEN Raise("OverflowError")
    ELSE Ok(n)

FloatOfInt(m, e) == FloatOfNorm(Norm(m, e))

\* The unsigned numerals float() reads over the characters modelled here:
\* digits with at most one point and a digit on one side of it at least.
PointAt(s) == {i \in 1..Len(s) : s[i] = "."}

IsUnsignedNumeral(s) ==
    /\ s # << >>
    /\ Cardinality(PointAt(s)) <= 1
    /\ AllDigits(StrDelete(s, "."))
    /\ StrDelete(s, ".") # << >>

FracDigits(s, p) == IF p = {} THEN 0 ELSE Len(s) - (CHOOSE i \in p : TRUE)

UnsignedVal(s) == Norm(DigitsVal(StrDelete(s, ".")), -FracDigits(s, PointAt(s)))

Unsigned(u) == IF IsUnsignedNumeral(u) THEN Ok(UnsignedVal(u)) ELSE Raise("ValueError")

Negate(r) == IF r.exc = "None" THEN Ok([m |-> -r.val.m, e |-> r.val.e]) ELSE r

PyFloatStripped(t) ==
    IF t # << >> /\ Head(t) = "-" THEN Negate(Unsigned(Tail(t))) ELSE Unsigned(t)

\* float(s) for a str s over Alphabet: surrounding whitespace is ignored, one
\* leading sign is read, everything else is ValueError.
PyFloat(s) == PyFloatStripped(Strip(s))

(***************************************************************************)
(* parse_number                                                            *)
(***************************************************************************)
Str(s) == [t |-> "str", s |-> s]

\* lines 59-61: is_percent, and s.rstrip('%').strip() when it holds
DropPercent(s) == IF EndsWith(s, "%") THEN Strip(RStripChar(s, "%")) ELSE s

\* parse_number without its except clause
CatchValueError_Reraise(num) == num

\* lines 63-67: try / except ValueError: return 0.0
CatchValueError(num) == IF num.exc = "ValueError" THEN Ok(Zero) ELSE num

\* lines 57-67, v a str
parse_number_str(x) ==
    CatchValueError(PyFloat(StrReplace(DropPercent(Strip(StrDelete(x, NBSP))), ",", ".")))

parse_number(x) ==
    CASE x.t = "int" -> FloatOfInt(x.m, x.e)
      [] x.t = "bool" -> Ok(Norm(IF x.b THEN 1 ELSE 0, 0))
      [] x.t = "float" -> Ok(x.f)
      [] x.t = "str" -> parse_number_str(x.s)
      [] OTHER -> Ok(Zero)

(***************************************************************************)
(* Dates: a datetime.date is its proleptic Gregorian ordinal               *)
(* (date.toordinal()), which orders dates as Python's comparison does.     *)
(***************************************************************************)
IsLeap(y) == y % 4 = 0 /\ (y % 100 # 0 \/ y % 400 = 0)

DaysInMonth(y, m) ==
    IF m = 2 THEN (IF IsLeap(y) THEN 29 ELSE 28)
    ELSE IF m \in {4, 6, 9, 11} THEN 30 ELSE 31

RECURSIVE DaysBeforeMonth(_, _)
DaysBeforeMonth(y, m) ==
    IF m = 1 THEN 0 ELSE DaysBeforeMonth(y, m - 1) + DaysInMonth(y, m - 1)

ToOrdinal(y, m, d) ==
    LET p == y - 1
    IN  p * 365 + (p \div 4) - (p \div 100) + (p \div 400) + DaysBeforeMonth(y, m) + d

\* s.split('.')
RECURSIVE SplitDot(_)
SplitDot(s) ==
    IF \A i \in 1..Len(s) : s[i] # "." THEN << s >>
    ELSE LET k == CHOOSE i \in 1..Len(s) :
                      s[i] = "." /\ \A j \in 1..(i - 1) : s[j] # "."
         IN  << SubSeq(s, 1, k - 1) >> \o SplitDot(SubSeq(s, k + 1, Len(s)))

\* _strptime's pattern for %d: 3[0-1]|[1-2]\d|0[1-9]|[1-9]| [1-9]
DayField(f) ==
    \/ Len(f) = 1 /\ f[1] \in Digits \ {"0"}
    \/ Len(f) = 2 /\ f[1] \in {"0", " "} /\ f[2] \in Digits \ {"0"}
    \/ Len(f) = 2 /\ f[1] \in {"1", "2"} /\ f[2] \in Digits
    \/ Len(f) = 2 /\ f[1] = "3" /\ f[2] \in {"0", "1"}

\* _strptime's pattern for %m: 1[0-2]|0[1-9]|[1-9]
MonthField(f) ==
    \/ Len(f) = 1 /\ f[1] \in Digits \ {"0"}
    \/ Len(f) = 2 /\ f[1] = "0" /\ f[2] \in Digits \ {"0"}
    \/ Len(f) = 2 /\ f[1] = "1" /\ f[2] \in {"0", "1", "2"}

\* _strptime's pattern for %Y: \d\d\d\d
YearField(f) == Len(f) = 4 /\ AllDigits(f)

\* datetime(y, m, d).date(): the year is at least MINYEAR and the day is one
\* of the month
MakeDate(d, m, y) ==
    IF y >= 1 /\ d <= DaysInMonth(y, m) THEN Ok(ToOrdinal(y, m, d)) ELSE Raise("ValueError")

StrpFields(f) ==
    IF Len(f) = 3 /\ DayField(f[1]) /\ MonthField(f[2]) /\ YearField(f[3])
    THEN MakeDate(DigitsVal(StrDelete(f[1], " ")), DigitsVal(f[2]), DigitsVal(f[3]))
    ELSE Raise("ValueError")

\* datetime.strptime(s, "%d.%m.%Y").date() for a str s
strptime(s) == StrpFields(SplitDot(s))

(***************************************************************************)
(* fetch_data                                                              *)
(***************************************************************************)
\* the loop running over values, the first row included
Rest_KeepHeader(s) == s

\* values[1:]
Rest(s) == IF s = << >> THEN << >> ELSE Tail(s)

\* the dict of lines 90-97 from the outcomes of its four parse_number calls,
\* or the first exception one of them raised
RecordOf(date_obj, b, s, type, x, m) ==
    IF b.exc # "None" THEN b
    ELSE IF s.exc # "None" THEN s
    ELSE IF x.exc # "None" THEN x
    ELSE IF m.exc # "None" THEN m
    ELSE Ok([date |-> date_obj, batons |-> b.val, sales |-> s.val,
             type |-> type, expense |-> x.val, margin |-> m.val])

MakeRecord(row, date_obj) ==
    RecordOf(date_obj, parse_number(Str(row[2])), parse_number(Str(row[3])), row[4],
             parse_number(Str(row[5])), parse_number(Str(row[6])))

RECURSIVE ReadRows(_, _)

\* line 90: data.append(...), unless building the record raised
AppendRecord(rec, left, data) ==
    IF rec.exc # "None" THEN rec ELSE ReadRows(left, Append(data, rec.val))

\* lines 86-89: try strptime / except Exception: continue
AfterDate(date_obj, row, left, data) ==
    IF date_obj.exc # "None" THEN ReadRows(left, data)
    ELSE AppendRecord(MakeRecord(row, date_obj.val), left, data)

\* lines 83-85: one pass of the loop body
ReadRow(row, left, data) ==
    IF Len(row) < 6 THEN ReadRows(left, data)
    ELSE AfterDate(strptime(row[1]), row, left, data)

\* the loop of lines 82-97 over the rows left, data being the list so far
ReadRows(left, data) ==
    IF left = << >> THEN Ok(data) ELSE ReadRow(Head(left), Tail(left), data)

\* fetch_data without its outer except clause
CatchAll_Reraise(r) == r

\* lines 99-101: except Exception: log, return []
CatchAll(r) == IF r.exc # "None" THEN Ok(<< >>) ELSE r

\* resp is what sheet.values().get(...).execute() does: it raises, or it
\* returns a dict whose 'values' (absent: [], line 80) are the rows.
fetch_data(resp) ==
    IF resp.exc # "None" THEN CatchAll(resp) ELSE CatchAll(ReadRows(Rest(resp.val), << >>))

(***************************************************************************)
(* filter_data, compute_report, format_report                              *)
(***************************************************************************)
\* the channel literals of lines 115, 119 and of lines 116, 120, transliterated
Online == << "O", "n", "l", "i", "n", "e" >>
Fop    == << "F", "O", "P" >>

RECURSIVE Pow10(_)
Pow10(n) == IF n = 0 THEN 1 ELSE 10 * Pow10(n - 1)

\* a + b on floats
FAddAt(a, b, e) == Norm(a.m * Pow10(a.e - e) + b.m * Pow10(b.e - e), e)

FAdd(a, b) == FAddAt(a, b, IF a.e < b.e THEN a.e ELSE b.e)

\* a / n for a float a and an int n: the quotient is kept as num / den
FDiv(a, n) ==
    IF n = 0 THEN Raise("ZeroDivisionError")
    ELSE IF a = Zero \/ n = 1 THEN Ok(a)
         ELSE Ok([num |-> a, den |-> n])

RECURSIVE FSum(_)
\* sum(xs); the int 0 that sum() gives for no element is written Zero
FSum(xs) ==
    IF xs = << >> THEN Zero ELSE FAdd(FSum(SubSeq(xs, 1, Len(xs) - 1)), xs[Len(xs)])

\* None where a date is expected: no date has ordinal 0 (date.min is 1)
NoDate == 0

\* a filter that drops the record dated exactly start
filter_data_Exclusive(data, sd, ed) ==
    SelectSeq(data, LAMBDA item : /\ (sd = NoDate \/ item.date > sd)
                                  /\ (ed = NoDate \/ item.date <= ed))

filter_data(data, sd, ed) ==
    SelectSeq(data, LAMBDA item : /\ (sd = NoDate \/ item.date >= sd)
                                  /\ (ed = NoDate \/ item.date <= ed))

\* a channel test that ignores surrounding whitespace
OfType_Stripped(rs, label) == SelectSeq(rs, LAMBDA item : Strip(item.type) = label)

\* [... for item in rows if item['type'] == label]
OfType(rs, label) == SelectSeq(rs, LAMBDA item : item.type = label)

Field(rs, f) == [i \in 1..Len(rs) |-> rs[i][f]]

\* an average without the guard for no element
Average_NoGuard(ms) == FDiv(FSum(ms), Len(ms))

\* sum(ms) / len(ms) if ms else 0.0
Average(ms) == IF ms # << >> THEN FDiv(FSum(ms), Len(ms)) ELSE Ok(Zero)

\* the dict of lines 126-135, or the exception an average raised
StatsOf(rs, avg_margin, avg_online, avg_fop) ==
    IF avg_margin.exc # "None" THEN avg_margin
    ELSE IF avg_online.exc # "None" THEN avg_online
    ELSE IF avg_fop.exc # "None" THEN avg_fop
    ELSE Ok([total_batons |-> FSum(Field(rs, "batons")),
             total_sales |-> FSum(Field(rs, "sales")),
             total_online |-> FSum(Field(OfType(rs, Online), "sales")),
             total_fop |-> FSum(Field(OfType(rs, Fop), "sales")),
             expense |-> FSum(Field(rs, "expense")),
             avg_margin |-> avg_margin.val,
             avg_online |-> avg_online.val,
             avg_fop |-> avg_fop.val])

compute_report(rs) ==
    StatsOf(rs, Average(Field(rs, "margin")),
                Average(Field(OfType(rs, Online), "margin")),
                Average(Field(OfType(rs, Fop), "margin")))

\* the text of the report: the two dates of the header (each printed as
\* day.month.year) and the eight numbers of the body
format_report(sd, ed, st) == [header |-> << sd, ed >>, body |-> st]

(***************************************************************************)
(* Specification SpecNumber: parse_number applied to one argument.         *)
(***************************************************************************)
MaxLen == 4

Alphabet == {"0", "1", ",", ".", "%", NBSP, " ", "-", "x"}

Strings == UNION {[1..n -> Alphabet] : n \in 0..MaxLen}

\* Python ints m * 10^e around the largest double, bools, floats, and values
\* that are neither numbers nor strings (None, a list).
Values ==
    {[t |-> "int", m |-> m, e |-> e] :
         m \in {-1, 0, 1, 2}, e \in {0, MaxTenExp, MaxTenExp + 1}}
      \cup {Str(s) : s \in Strings}
      \cup {[t |-> "bool", b |-> b] : b \in BOOLEAN}
      \cup {[t |-> "float", f |-> Norm(m, -1)] : m \in {-5, 0, 25}}
      \cup {[t |-> "NoneType"], [t |-> "list"]}

InitNumber ==
    /\ v \in Values
    /\ ret = None
    /\ pc = "call"
    /\ values = None /\ fetched = None
    /\ rows = None /\ start_date = None /\ end_date = None
    /\ filtered = None /\ stats = None
    /\ sheet = None /\ call = None /\ now = None /\ start = None
    /\ report = None /\ out = None /\ fetch_for = {} /\ report_to = {}

ParseNumber ==
    /\ pc = "call"
    /\ ret' = parse_number(v)
    /\ pc' = "returned"
    /\ UNCHANGED << v, fetchVars, coreVars, botVars >>

NextNumber == ParseNumber

SpecNumber == InitNumber /\ [][NextNumber]_vars

\* The string of C8's description: every no-break space deleted, surrounding
\* whitespace trimmed, the trailing percent sign removed, a comma replaced by a
\* dot.
ClaimedNumeral(s) == StrReplace(DropPercent(Strip(StrDelete(s, NBSP))), ",", ".")

ClaimedValue(s) ==
    LET n == PyFloat(ClaimedNumeral(s))
    IN  IF n.exc = "None" THEN n.val ELSE Zero

\* C8: parse_number never raises; a string gives the value of the numeral left
\* after deleting no-break spaces, trimming, removing a trailing percent sign
\* and replacing a comma by a dot, or 0.0 when that is no numeral; a value that
\* is neither a number nor a string gives 0.0.
C8_ParseNumberTotal ==
    pc = "returned" =>
        /\ ret.exc = "None"
        /\ v.t = "str" => ret.val = ClaimedValue(v.s)
        /\ v.t \notin {"int", "bool", "float", "str"} => ret.val = Zero

(***************************************************************************)
(* Specification SpecFetch: fetch_data applied to one answer of the API.   *)
(***************************************************************************)
MaxRows == 2

S_05_03_2024 == << "0", "5", ".", "0", "3", ".", "2", "0", "2", "4" >>
S_1_3_2024   == << "1", ".", "3", ".", "2", "0", "2", "4" >>
S_31_02_2024 == << "3", "1", ".", "0", "2", ".", "2", "0", "2", "4" >>
S_2024_03_05 == << "2", "0", "2", "4", "-", "0", "3", "-", "0", "5" >>
S_10       == << "1", "0" >>
S_500      == << "5", "0", "0" >>
S_50       == << "5", "0" >>
S_12_5pct  == << "1", "2", ",", "5", "%" >>
S_12pct    == << "1", "2", "%" >>
S_x        == << "x" >>
S_pct      == << "%" >>
S_empty    == << >>
S_Date     == << "D", "a", "t", "e" >>

DateCells == {S_05_03_2024, S_1_3_2024, S_31_02_2024, S_2024_03_05}

\* the cells of batons, sales, expense and margin
NumberCells ==
    { << S_10, S_500, S_50, S_12_5pct >>,
      << S_x, S_500, S_empty, S_12pct >>,
      << S_10, S_x, S_50, S_pct >> }

FullRow(d, n) == << d, n[1], n[2], Online, n[3], n[4], S_x >>

FetchRows ==
    {SubSeq(FullRow(d, n), 1, k) : d \in DateCells, n \in NumberCells, k \in {5, 6, 7}}

HeaderRows ==
    { << S_Date, S_x, S_x, S_x, S_x, S_x >>,
      FullRow(S_05_03_2024, << S_10, S_500, S_50, S_12_5pct >>) }

\* what execute() does: the rows (no row at all, or a first row and up to
\* MaxRows more), or an exception
Responses ==
    {Raise("HttpError"), Ok(<< >>)}
      \cup {Ok(<< h >> \o r) :
                h \in HeaderRows, r \in UNION {[1..n -> FetchRows] : n \in 0..MaxRows}}

InitFetch ==
    /\ values \in Responses
    /\ fetched = None
    /\ pc = "call"
    /\ v = None /\ ret = None
    /\ rows = None /\ start_date = None /\ end_date = None
    /\ filtered = None /\ stats = None
    /\ sheet = None /\ call = None /\ now = None /\ start = None
    /\ report = None /\ out = None /\ fetch_for = {} /\ report_to = {}

FetchData ==
    /\ pc = "call"
    /\ fetched' = fetch_data(values)
    /\ pc' = "returned"
    /\ UNCHANGED << values, numberVars, coreVars, botVars >>

NextFetch == FetchData

SpecFetch == InitFetch /\ [][NextFetch]_vars

\* the rows of a successful answer, and the positions of those that give a record
RowsOf(resp) == IF resp.exc = "None" THEN resp.val ELSE << >>

IsDate(s) == strptime(s).exc = "None"

Kept(rs) == {i \in 2..Len(rs) : Len(rs[i]) >= 6 /\ IsDate(rs[i][1])}

\* the position of the row behind the k-th record
Source(rs, k) == CHOOSE i \in Kept(rs) : Cardinality({j \in Kept(rs) : j < i}) = k - 1

\* C1: the header row gives no record; each later row gives exactly one
\* record, in input order, iff it has at least 6 cells and cell 0 is a date in
\* day.month.year format.
C1_RecordPerValidRow ==
    pc = "returned" =>
        LET rs == RowsOf(values)
        IN  /\ fetched.exc = "None"
            /\ Len(fetched.val) = Cardinality(Kept(rs))
            /\ \A k \in 1..Len(fetched.val) :
                   LET row == rs[Source(rs, k)]
                   IN  /\ fetched.val[k].date = strptime(row[1]).val
                       /\ fetched.val[k].type = row[4]
                       /\ fetched.val[k].sales = parse_number(Str(row[3])).val

\* a first row that reads as data and gives no record, then a short row with
\* a good date that is skipped and one row that gives the only record
C1_Witness ==
    /\ pc = "returned"
    /\ Len(RowsOf(values)) = 3
    /\ IsDate(values.val[1][1]) /\ Len(values.val[1]) >= 6
    /\ Len(fetched.val) = 1
    /\ \E i \in {2, 3} : Len(values.val[i]) < 6 /\ IsDate(values.val[i][1])

\* C2 as stated: every row after the header whose cell 0 is a date gives a record.
C2_OnlyBadDateDrops ==
    pc = "returned" =>
        LET rs == RowsOf(values)
        IN  Len(fetched.val) =
                Cardinality({i \in 2..Len(rs) : Len(rs[i]) >= 1 /\ IsDate(rs[i][1])})

\* a cell without a digit reads as no number
NoDigit(s) == \A i \in 1..Len(s) : s[i] \notin Digits

\* C2 amended: every row after the header with at least 6 cells whose cell 0 is
\* a date gives a record, cell 3 verbatim, 0.0 in each number field whose cell
\* does not read as a number.
C2_BadFieldDegrades ==
    pc = "returned" =>
        LET rs == RowsOf(values)
        IN  /\ fetched.exc = "None"
            /\ Len(fetched.val) = Cardinality(Kept(rs))
            /\ \A k \in 1..Len(fetched.val) :
                   LET row == rs[Source(rs, k)]
                       rec == fetched.val[k]
                   IN  /\ rec.date = strptime(row[1]).val
                       /\ rec.type = row[4]
                       /\ NoDigit(row[2]) => rec.batons = Zero
                       /\ NoDigit(row[3]) => rec.sales = Zero
                       /\ NoDigit(row[5]) => rec.expense = Zero
                       /\ NoDigit(row[6]) => rec.margin = Zero

\* a record with a number field that failed, next to one that did not
C2_Witness ==
    /\ pc = "returned"
    /\ \E k \in 1..Len(fetched.val) :
           /\ fetched.val[k].batons = Zero
           /\ fetched.val[k].sales # Zero
           /\ RowsOf(values)[Source(RowsOf(values), k)][2] = S_x

(***************************************************************************)
(* Specification SpecCore: filter_data over a list of records and two      *)
(* optional bounds, then compute_report over what it kept.                 *)
(***************************************************************************)
MaxRecs == 2

\* the channel literal in another case, and followed by a space
OnlineLower == << "o", "n", "l", "i", "n", "e" >>
OnlinePadded == Online \o << " " >>

CoreDates == {ToOrdinal(2024, 3, 1), ToOrdinal(2024, 3, 5), ToOrdinal(2024, 4, 1)}

CoreTypes == {Online, Fop, OnlineLower, OnlinePadded}

\* batons, sales, expense, margin
CoreAmounts ==
    { << Norm(1, 0), Norm(100, 0), Norm(5, 0), Norm(10, 0) >>,
      << Norm(2, 0), Norm(250, 0), Norm(0, 0), Norm(25, 0) >> }

Records ==
    {[date |-> d, batons |-> a[1], sales |-> a[2], type |-> t,
      expense |-> a[3], margin |-> a[4]] :
         d \in CoreDates, t \in CoreTypes, a \in CoreAmounts}

InitCore ==
    /\ rows \in UNION {[1..n -> Records] : n \in 0..MaxRecs}
    /\ start_date \in CoreDates \cup {NoDate}
    /\ end_date \in CoreDates \cup {NoDate}
    /\ filtered = None /\ stats = None
    /\ pc = "call"
    /\ v = None /\ ret = None /\ values = None /\ fetched = None
    /\ sheet = None /\ call = None /\ now = None /\ start = None
    /\ report = None /\ out = None /\ fetch_for = {} /\ report_to = {}

FilterData ==
    /\ pc = "call"
    /\ filtered' = filter_data(rows, start_date, end_date)
    /\ pc' = "filtered"
    /\ UNCHANGED << rows, start_date, end_date, stats, numberVars, fetchVars, botVars >>

ComputeReport ==
    /\ pc = "filtered"
    /\ stats' = compute_report(filtered)
    /\ pc' = "computed"
    /\ UNCHANGED << rows, start_date, end_date, filtered, numberVars, fetchVars, botVars >>

NextCore == FilterData \/ ComputeReport

SpecCore == InitCore /\ [][NextCore]_vars

\* the k-th smallest member of a set of positions
Nth(S, k) == CHOOSE i \in S : Cardinality({j \in S : j <= i}) = k

RECURSIVE SumAt(_, _, _)
\* the sum of field f of rs over the positions in S
SumAt(rs, S, f) ==
    IF S = {} THEN Zero
    ELSE LET i == CHOOSE j \in S : TRUE
         IN  FAdd(rs[i][f], SumAt(rs, S \ {i}, f))

InRange(d) ==
    /\ (start_date = NoDate \/ d >= start_date)
    /\ (end_date = NoDate \/ d <= end_date)

\* C3: filter_data returns exactly the records whose date is within the
\* bounds, both inclusive, an absent bound excluding nothing, in input order
\* and unaltered.
C3_FilterIsSubsequence ==
    pc # "call" =>
        LET P == {i \in 1..Len(rows) : InRange(rows[i].date)}
        IN  /\ Len(filtered) = Cardinality(P)
            /\ \A k \in 1..Len(filtered) : filtered[k] = rows[Nth(P, k)]

\* a record dated exactly end and then one dated exactly start: both are
\* kept, in input order
C3_Witness ==
    /\ pc = "filtered"
    /\ start_date # NoDate /\ end_date # NoDate /\ start_date < end_date
    /\ Len(rows) = 2 /\ Len(filtered) = 2
    /\ filtered[1].date = end_date /\ filtered[2].date = start_date

\* what Average must give for the records of rs at the positions in S
MeanAt(rs, S) ==
    IF S = {} THEN Zero
    ELSE LET t == SumAt(rs, S, "margin")
         IN  IF t = Zero \/ Cardinality(S) = 1 THEN t
             ELSE [num |-> t, den |-> Cardinality(S)]

All(rs) == 1..Len(rs)
With(rs, label) == {i \in 1..Len(rs) : rs[i].type = label}

\* C4: compute_report never divides by zero; each average is 0.0 when its own
\* subset is empty and the subset's sum of margin over its size otherwise; for
\* no record every total and average is 0.
C4_NoDivisionByZero ==
    pc = "computed" =>
        /\ stats.exc = "None"
        /\ stats.val.avg_margin = MeanAt(filtered, All(filtered))
        /\ stats.val.avg_online = MeanAt(filtered, With(filtered, Online))
        /\ stats.val.avg_fop = MeanAt(filtered, With(filtered, Fop))
        /\ filtered = << >> =>
               \A f \in DOMAIN stats.val : stats.val[f] = Zero

\* records of one channel only: the other channel's average is 0.0
C4_Witness ==
    /\ pc = "computed"
    /\ filtered # << >>
    /\ With(filtered, Online) = {}
    /\ With(filtered, Fop) # {}
    /\ stats.val.avg_online = Zero
    /\ stats.val.avg_fop # Zero

\* C5: the online and partner totals and averages are over exactly the records
\* whose channel equals the literal; a record with any other label counts in
\* total_batons, total_sales, expense and avg_margin only.
C5_ExactChannelMatch ==
    pc = "computed" /\ stats.exc = "None" =>
        LET on == With(filtered, Online)
            fp == With(filtered, Fop)
        IN  /\ stats.val.total_online = SumAt(filtered, on, "sales")
            /\ stats.val.total_fop = SumAt(filtered, fp, "sales")
            /\ stats.val.avg_online = MeanAt(filtered, on)
            /\ stats.val.avg_fop = MeanAt(filtered, fp)
            /\ stats.val.total_batons = SumAt(filtered, All(filtered), "batons")
            /\ stats.val.total_sales = SumAt(filtered, All(filtered), "sales")
            /\ stats.val.expense = SumAt(filtered, All(filtered), "expense")
            /\ stats.val.avg_margin = MeanAt(filtered, All(filtered))

\* a record labelled in another case beside one with the padded label: both
\* count in the overall totals and in neither channel
C5_Witness ==
    /\ pc = "computed"
    /\ Len(filtered) = 2
    /\ filtered[1].type = OnlineLower /\ filtered[2].type = OnlinePadded
    /\ stats.val.total_online = Zero /\ stats.val.total_fop = Zero
    /\ stats.val.avg_online = Zero
    /\ stats.val.total_sales # Zero /\ stats.val.avg_margin # Zero

(***************************************************************************)
(* Specification Spec: the bot.  Telegram users send /start, /myid and     *)
(* press the buttons; the remote sheet is edited by its owners at any      *)
(* time, also between the two reads one report_all request makes.          *)
(***************************************************************************)
MaxSheetRows == 2

\* WHITELIST (line 18) and the ids of the users who write to the bot
WHITELIST == {101}
Users == {101, 202}

\* call.data of the buttons of period_command, and another report_ value
ReportData == {"report_week", "report_month", "report_all", "report_year"}

\* datetime.now().date()
Todays == {ToOrdinal(2024, 3, 10), ToOrdinal(2024, 3, 11)}

S_09_02_2024 == << "0", "9", ".", "0", "2", ".", "2", "0", "2", "4" >>
S_03_03_2024 == << "0", "3", ".", "0", "3", ".", "2", "0", "2", "4" >>
S_11_03_2024 == << "1", "1", ".", "0", "3", ".", "2", "0", "2", "4" >>

SheetRows ==
    {<< d, S_10, S_500, t, S_50, S_12_5pct >> :
         d \in {S_09_02_2024, S_03_03_2024, S_11_03_2024, S_31_02_2024},
         t \in {Online, Fop}}

SheetHeader == << S_Date, S_x, S_x, S_x, S_x, S_x >>

Sheets ==
    {<< >>} \cup
    {<< SheetHeader >> \o r : r \in UNION {[1..n -> SheetRows] : n \in 0..MaxSheetRows}}

\* a wrapper that lets every requester through
Allowed_Anyone(u) == TRUE

\* if message.from_user.id not in WHITELIST (line 157), negated
Allowed(u) == u \in WHITELIST

\* sheet.values().get(...).execute(): the rows of the sheet as it is now, or
\* an exception
Execute(fail) == IF fail THEN Raise("HttpError") ELSE Ok(sheet)

\* min(xs, default=d)
RECURSIVE MinDate(_, _)
MinDate(xs, d) ==
    IF xs = << >> THEN d
    ELSE IF \A i \in 1..Len(xs) : xs[1] <= xs[i] THEN xs[1]
         ELSE MinDate(Tail(xs), d)

Message(u, kind, text) == [to |-> u, kind |-> kind, text |-> text]

\* the wrapper's refusal (lines 158-159).  For a message it answers in
\* message.chat; a callback query has its chat under call.message, so whether
\* the lookup of call.chat answers or raises AttributeError is the library's.
Refuse(u, handler, isCall) ==
    \/ out' = Message(u, "denied", handler)
    \/ isCall /\ out' = Message(u, "AttributeError", handler)

Init ==
    /\ sheet \in Sheets
    /\ pc = "idle"
    /\ call = None /\ now = NoDate /\ start = NoDate /\ report = None
    /\ out = None /\ fetch_for = {} /\ report_to = {}
    /\ v = None /\ ret = None /\ values = None /\ fetched = None
    /\ rows = None /\ start_date = None /\ end_date = None
    /\ filtered = None /\ stats = None

\* the owners of the sheet add a row below the others, or the header to an
\* empty sheet
AppendRow ==
    /\ pc \in {"idle", "line202"}
    /\ Len(sheet) <= MaxSheetRows
    /\ \E r \in (IF sheet = << >> THEN {SheetHeader} ELSE SheetRows) :
           sheet' = Append(sheet, r)
    /\ UNCHANGED << pc, call, now, start, report, out, fetch_for, report_to,
                    numberVars, fetchVars, coreVars >>

\* the owners of the sheet delete its last row
DeleteRow ==
    /\ pc \in {"idle", "line202"}
    /\ sheet # << >>
    /\ sheet' = SubSeq(sheet, 1, Len(sheet) - 1)
    /\ UNCHANGED << pc, call, now, start, report, out, fetch_for, report_to,
                    numberVars, fetchVars, coreVars >>

start_command(u) ==
    /\ pc = "idle"
    /\ IF Allowed(u)
       THEN out' = Message(u, "menu", "chinazes_")
       ELSE Refuse(u, "start_command", FALSE)
    /\ pc' = "done"
    /\ UNCHANGED << sheet, call, now, start, report, fetch_for, report_to,
                    numberVars, fetchVars, coreVars >>

period_command(u) ==
    /\ pc = "idle"
    /\ IF Allowed(u)
       THEN out' = Message(u, "periods", "report_")
       ELSE Refuse(u, "period_command", TRUE)
    /\ pc' = "done"
    /\ UNCHANGED << sheet, call, now, start, report, fetch_for, report_to,
                    numberVars, fetchVars, coreVars >>

myid_command(u) ==
    /\ pc = "idle"
    /\ out' = Message(u, "myid", "id")
    /\ pc' = "done"
    /\ UNCHANGED << sheet, call, now, start, report, fetch_for, report_to,
                    numberVars, fetchVars, coreVars >>

\* what callback_report leaves behind: the exception that ended it if any,
\* whether the read of line 202 failed, and the values of its locals
Report(exc, failed, data, kept, st, text) ==
    [exc |-> exc, failed |-> failed, preset |-> call.data, start |-> start,
     end |-> now, data |-> data, filtered |-> kept, stats |-> st, text |-> text]

\* lines 198-199, all_data being what fetch_data did
StartOfAll(all_data, n) ==
    IF all_data.exc = "None" THEN Ok(MinDate(Field(all_data.val, "date"), n)) ELSE all_data

\* lines 192-200 for a call.data other than report_week and report_month,
\* s being the start of lines 198-199 or the exception that ends the handler
BeginAll(d, n, fail, s) ==
    /\ now' = n
    /\ IF s.exc = "None"
       THEN /\ start' = s.val
            /\ pc' = "line202"
            /\ report' = report
       ELSE /\ start' = NoDate
            /\ pc' = "done"
            /\ report' = [exc |-> s.exc, failed |-> fail, preset |-> d,
                          start |-> NoDate, end |-> n, data |-> << >>,
                          filtered |-> << >>, stats |-> NoValue, text |-> NoValue]

\* callback_report, lines 192-200, refused by the wrapper or run
callback_report(u, d) ==
    /\ pc = "idle"
    /\ \/ /\ ~Allowed(u)
          /\ Refuse(u, "callback_report", TRUE)
          /\ pc' = "done"
          /\ UNCHANGED << call, now, start, report, fetch_for >>
       \/ /\ Allowed(u)
          /\ d \in {"report_week", "report_month"}
          /\ \E n \in Todays :
                 /\ now' = n
                 /\ start' = IF d = "report_week" THEN n - 7 ELSE n - 30
          /\ call' = [user |-> u, data |-> d]
          /\ pc' = "line202"
          /\ UNCHANGED << report, out, fetch_for >>
       \/ /\ Allowed(u)
          /\ d \notin {"report_week", "report_month"}
          /\ \E n \in Todays, fail \in BOOLEAN :
                 BeginAll(d, n, fail, StartOfAll(fetch_data(Execute(fail)), n))
          /\ call' = [user |-> u, data |-> d]
          /\ fetch_for' = fetch_for \cup {u}
          /\ out' = out
    /\ UNCHANGED << sheet, report_to, numberVars, fetchVars, coreVars >>

\* lines 205-206, or the exception of compute_report
SendReport(fail, data, kept, st) ==
    IF st.exc = "None"
    THEN /\ report' = Report("None", fail, data, kept, st.val,
                             format_report(start, now, st.val))
         /\ out' = Message(call.user, "report", call.data)
         /\ report_to' = report_to \cup {call.user}
    ELSE /\ report' = Report(st.exc, fail, data, kept, NoValue, NoValue)
         /\ UNCHANGED << out, report_to >>

\* line 204
Line204(fail, data, kept) == SendReport(fail, data, kept, compute_report(kept))

\* line 203, or the exception of fetch_data
Line203(fail, data) ==
    IF data.exc = "None"
    THEN Line204(fail, data.val, filter_data(data.val, start, now))
    ELSE /\ report' = Report(data.exc, fail, << >>, << >>, NoValue, NoValue)
         /\ UNCHANGED << out, report_to >>

\* callback_report, lines 202-206
callback_report_202 ==
    /\ pc = "line202"
    /\ \E fail \in BOOLEAN : Line203(fail, fetch_data(Execute(fail)))
    /\ fetch_for' = fetch_for \cup {call.user}
    /\ pc' = "done"
    /\ UNCHANGED << sheet, call, now, start, numberVars, fetchVars, coreVars >>

\* the handler is over; the bot polls for the next update (out is the
\* message the last handler sent, if any)
Polling ==
    /\ pc = "done"
    /\ pc' = "idle"
    /\ call' = None /\ now' = NoDate /\ start' = NoDate /\ report' = None
    /\ out' = None
    /\ UNCHANGED << sheet, fetch_for, report_to, numberVars, fetchVars, coreVars >>

Next ==
    \/ AppendRow
    \/ DeleteRow
    \/ \E u \in Users : start_command(u)
    \/ \E u \in Users : period_command(u)
    \/ \E u \in Users : myid_command(u)
    \/ \E u \in Users, d \in ReportData : callback_report(u, d)
    \/ callback_report_202
    \/ Polling

Spec == Init /\ [][Next]_vars
\* the records the sheet holds now that fall in the period of the report
InPeriodNow == filter_data(fetch_data(Ok(sheet)).val, report.start, report.end)

AllZero(st) == \A f \in DOMAIN st : st[f] = Zero

C7_AllStartsAtEarliestRecord ==
    pc = "done" /\ report # None =>
        (report.exc = "None" /\ report.preset \notin {"report_week", "report_month"} =>
            /\ report.end = now
            /\ report.text.header = << report.start, report.end >>
            /\ \A i \in 1..Len(report.data) : report.data[i].date >= report.start)

\* C9: the body of start_command, period_command and callback_report runs
\* only for a requester of the allow-list; for any other requester no data is
\* fetched and no report text is sent.
C9_OnlyWhitelistedServed ==
    /\ fetch_for \subseteq WHITELIST
    /\ report_to \subseteq WHITELIST
    /\ pc = "line202" => call.user \in WHITELIST
    /\ pc = "done" /\ report # None => call.user \in WHITELIST
    /\ pc = "done" /\ out # None =>
           (out.kind \in {"menu", "periods", "report"} => out.to \in WHITELIST)

\* a requester outside the allow-list asked for a report and was refused,
\* after a requester of the allow-list was served
C9_Witness ==
    /\ pc = "done" /\ out # None
    /\ out.to \notin WHITELIST
    /\ out.kind \in {"denied", "AttributeError"}
    /\ out.text = "callback_report"
    /\ report = None
    /\ report_to # {} /\ fetch_for = report_to

\* C10: for every preset and whatever the sheet holds, the start date passed
\* to filter_data and format_report is not later than the end date.
C10_StartNotAfterEnd ==
    pc = "done" /\ report # None =>
        (report.exc = "None" =>
            /\ report.start <= report.end
            /\ report.text.header[1] <= report.text.header[2])

====
